---- MODULE Spec2Model ----
(***************************************************************************)
(* A model of speed/teili2orca.py: the class teili2orca, which extracts a  *)
(* static description (net_dict) from a brian2/teili network and pickles   *)
(* it to a file.                                                           *)
(*                                                                         *)
(* Python objects are modelled as follows.                                 *)
(*  - A dict is a function from its keys to its values.                    *)
(*  - The objects of the input network are keyed by their name (the class  *)
(*    docstring, lines 38-41: "Each group has a unique ID"); every object   *)
(*    is assumed to carry the attributes the code reads (name, N, source,  *)
(*    target, _tags, _init_parameters, w_plast).                           *)
(*  - A reference to a mutable object of the network is a cell             *)
(*    <<"ref", kind, name>>; an object the extractor owns is a cell         *)
(*    <<"val", value>>.                                                     *)
(*  - A str is a sequence of one-character strings.                        *)
(*  - A weight is an integer in units of 10^-5; a rounded mean or std is a *)
(*    record [nan, v] with v in units of 10^-4; p_connection is a reduced  *)
(*    fraction <<numerator, denominator>>.                                 *)
(***************************************************************************)
EXTENDS Integers, Sequences, FiniteSets, TLC

VARIABLES
    groups,              \* net: the neuron-like objects, name -> [type, N, params]
    conns,               \* net: the synapse-like objects, name -> [type, source, target, w_plast, tags, params]
    objects,             \* net.__dict__['objects']: the names in iteration order
    pc,                  \* "new" (no extractor yet) | "ready" (constructed) | "raised"
    error,               \* the exception the last call raised, or "none"
    neuron_groups,       \* self.neuron_groups: names in insertion order
    conn_groups,         \* self.conn_groups
    poisson_groups,      \* self.poisson_groups
    spikegen_groups,     \* self.spikegen_groups
    total_num_neurons,   \* self.total_num_neurons
    total_num_synapses,  \* self.total_num_synapses
    attrs,               \* self.neuron_populations, synapse_populations, synapse_tags, neuron_params, synapse_params
    net_dict,            \* self.net_dict
    files,               \* the file system: path -> pickled content
    dirs,                \* the file system: the directories that exist
    stdout,              \* what the last call printed
    changes,             \* how often the network's owner has changed it since construction
    hist,                \* history: what the last call was, and what the state was before it
    ghost                \* history: the mapping the constructor built, the file last loaded

vars == <<groups, conns, objects, pc, error, neuron_groups, conn_groups,
          poisson_groups, spikegen_groups, total_num_neurons,
          total_num_synapses, attrs, net_dict, files, dirs, stdout,
          changes, hist, ghost>>

netVars == <<groups, conns, objects>>
selfVars == <<neuron_groups, conn_groups, poisson_groups, spikegen_groups,
              total_num_neurons, total_num_synapses, attrs, net_dict>>
fsVars == <<files, dirs>>

(***************************************************************************)
(* Bounds of the model.                                                    *)
(***************************************************************************)
MaxN == 2        \* a population has 0..MaxN neurons
MaxConn == 2     \* a synapse group has 0..MaxConn synapses
MaxMut == 1      \* changes the owner makes to the network after construction
MaxFiles == 2    \* pickle files written by save_to_file

(***************************************************************************)
(* dict helpers                                                            *)
(***************************************************************************)
EmptyDict == [x \in {} |-> 0]

\* d.pop(k, None)
Pop(d, k) == [x \in (DOMAIN d) \ {k} |-> d[x]]

\* d.update({k: v})
Update(d, k, v) == [x \in (DOMAIN d) \cup {k} |-> IF x = k THEN v ELSE d[x]]

Range(s) == {s[i] : i \in DOMAIN s}

\* the elements of a sequence that lie in a set, in the sequence's order
Filter(s, S) == SelectSeq(s, LAMBDA x : x \in S)

RECURSIVE SumSeq(_)
SumSeq(s) == IF s = << >> THEN 0 ELSE Head(s) + SumSeq(Tail(s))

RECURSIVE GCD(_, _)
GCD(a, b) == IF b = 0 THEN a ELSE GCD(b, a % b)

\* Python's int / int for non-negative a and positive b, as a reduced fraction
TrueDiv(a, b) == LET g == GCD(a, b) IN <<a \div g, b \div g>>


\* the keys of a dict in one fixed order (where the insertion order is not tracked)
RECURSIVE KeysOf(_)
KeysOf(S) == IF S = {} THEN << >>
             ELSE LET k == CHOOSE x \in S : TRUE IN <<k>> \o KeysOf(S \ {k})

(***************************************************************************)
(* numpy: np.round(np.mean(w), 4) and np.round(np.std(w), 4)                *)
(***************************************************************************)
Weights == {5, 20}            \* 0.00005 and 0.0002

NaN == [nan |-> TRUE, v |-> 0]
Float(x) == [nan |-> FALSE, v |-> x]

\* num/den rounded to the nearest integer, halves to the even one (np.round)
RoundHalfEven(num, den) ==
    LET q == num \div den
        r == num % den
    IN  IF 2 * r < den THEN q
        ELSE IF 2 * r > den THEN q + 1
        ELSE IF q % 2 = 0 THEN q ELSE q + 1

\* sqrt(num/den) rounded to the nearest integer, halves to the even one
RoundSqrt(num, den, top) ==
    LET up == CHOOSE s \in 0..top :
                  /\ (s = 0 \/ (2 * s - 1) * (2 * s - 1) * den <= 4 * num)
                  /\ (2 * s + 1) * (2 * s + 1) * den > 4 * num
    IN  IF up > 0 /\ (2 * up - 1) * (2 * up - 1) * den = 4 * num /\ up % 2 = 1
        THEN up - 1 ELSE up

RECURSIVE MaxSeq(_)
MaxSeq(s) == IF s = << >> THEN 0
             ELSE LET m == MaxSeq(Tail(s)) IN IF Head(s) > m THEN Head(s) ELSE m

\* np.round(np.mean(w), 4): the mean of no values is nan
RoundedMean(w) ==
    IF w = << >> THEN NaN
    ELSE Float(RoundHalfEven(SumSeq(w), 10 * Len(w)))

\* np.round(np.std(w), 4): sqrt(sum((w_i - mean)^2) / n)
\*   = sqrt(sum((n w_i - S)^2) / n^3), and one more factor 10 for the unit
RoundedStd(w) ==
    IF w = << >> THEN NaN
    ELSE LET n == Len(w)
             S == SumSeq(w)
             V == SumSeq([i \in 1..n |-> (n * w[i] - S) * (n * w[i] - S)])
         IN  Float(RoundSqrt(V, 100 * n * n * n, MaxSeq(w)))

(***************************************************************************)
(* The input network                                                       *)
(***************************************************************************)
GroupNames == {"g1", "g2"}
ConnNames == {"s1", "s2"}

NeuronTypes == {"Neurons", "NeuronGroup"}
SynapseTypes == {"Connections", "Synapses"}
\* the types a connection's source or target can have
GroupTypes == NeuronTypes \cup {"PoissonGroup", "SpikeGeneratorGroup", "Subgroup"}

Group(t, n, p) == [type |-> t, N |-> n, params |-> p]
Conn(t, s, d, w, tg, p) ==
    [type |-> t, source |-> s, target |-> d, w_plast |-> w, tags |-> tg, params |-> p]

\* all sequences over S of length at most n
SeqsUpTo(S, n) == UNION {[1..k -> S] : k \in 0..n}

\* the tags teili gives a Connections object
TeiliTags ==
    [mismatch |-> 0, noise |-> 0, level |-> 0, sign |-> "exc",
     target_sign |-> "inh", num_inputs |-> 1, bb_type |-> "None",
     group_type |-> "None", connection_type |-> "None"]

\* tags dicts that lack some of teili's keys or hold others
TagChoices ==
    {[k \in ((DOMAIN TeiliTags) \ X) \cup Y |->
          IF k = "foo" THEN 7 ELSE IF k = "plastic" THEN TRUE ELSE TeiliTags[k]] :
       X \in SUBSET {"sign", "target_sign", "mismatch"},
       Y \in SUBSET {"foo", "plastic"}}

NeuronParams == [refP |-> 1]
SynapseParamChoices ==
    {[k \in K |-> 20] : K \in SUBSET {"taupre", "weight"}}

TypeOf(o) == IF o \in DOMAIN groups THEN groups[o].type ELSE conns[o].type

(***************************************************************************)
(* teili2orca.__init__ and the extract_* methods                           *)
(***************************************************************************)
\* a bug: only teili's own class is recognised
IsNeuronGroupTeiliOnly(o) == TypeOf(o) = "Neurons"

\* {att.name: att for att in net.__dict__['objects'] if type(att) == ...}
IsNeuronGroup(o) == TypeOf(o) = "Neurons" \/ TypeOf(o) = "NeuronGroup"
IsConnGroup(o) == TypeOf(o) = "Connections" \/ TypeOf(o) = "Synapses"
IsPoissonGroup(o) == TypeOf(o) = "PoissonGroup"
IsSpikegenGroup(o) == TypeOf(o) = "SpikeGeneratorGroup"

\* a bug: every object of the network that has a size is counted
TotalNeuronsOfAllObjects(ng) ==
    SumSeq([i \in DOMAIN Filter(objects, DOMAIN groups) |->
               groups[Filter(objects, DOMAIN groups)[i]].N])

\* for group_key in self.neuron_groups: total += self.neuron_groups[group_key].N
TotalNeurons(ng) == SumSeq([i \in DOMAIN ng |-> groups[ng[i]].N])

\* for group_key in self.conn_groups: total += len(self.conn_groups[group_key])
TotalSynapses(cg) == SumSeq([i \in DOMAIN cg |-> Len(conns[cg[i]].w_plast)])

\* extract_neuron_groups: {group_key: N}
NeuronPopulations(ng) == [k \in Range(ng) |-> groups[k].N]

\* extract_synapse_groups: {group_key: [source.name, target.name]}
SynapsePopulations(cg) == [k \in Range(cg) |-> <<conns[k].source, conns[k].target>>]

\* a bug: one of the pops is missing
RemovedTagsWithoutLevel ==
    <<"mismatch", "noise", "num_inputs", "bb_type", "group_type", "connection_type">>

\* the seven keys extract_synapse_tags pops, in the order it pops them
RemovedTags ==
    <<"mismatch", "noise", "level", "num_inputs", "bb_type", "group_type",
      "connection_type">>

RECURSIVE PopAll(_, _)
PopAll(d, keys) == IF keys = << >> THEN d ELSE PopAll(Pop(d, Head(keys)), Tail(keys))

\* lines 166-169
IsPlastic(c) == "taupre" \in DOMAIN c.params

\* lines 157-169: the tags after the pops and the plastic flag
TagsBeforeDivision(c) == Update(PopAll(c.tags, RemovedTags), "plastic", IsPlastic(c))

\* lines 171-173: len(conn) / (source.N * target.N), for a non-zero product
PConnection(c) == TrueDiv(Len(c.w_plast), groups[c.source].N * groups[c.target].N)

DivisionByZero(c) == groups[c.source].N * groups[c.target].N = 0

\* lines 175-183
TagsAfter(c) ==
    Update(Update(Update(TagsBeforeDivision(c),
                         "p_connection", PConnection(c)),
                  "mean", RoundedMean(c.w_plast)),
           "std", RoundedStd(c.w_plast))

\* the loop of extract_synapse_tags over self.conn_groups: the network's
\* synapse groups afterwards (their _tags dicts are updated in place), the
\* keys entered in self.synapse_tags, and whether the division raised
RECURSIVE TagsLoop(_, _)
TagsLoop(order, cs) ==
    IF order = << >> THEN [conns |-> cs, keys |-> << >>, raised |-> FALSE]
    ELSE LET k == Head(order)
         IN  IF DivisionByZero(cs[k])
             THEN [conns |-> [cs EXCEPT ![k].tags = TagsBeforeDivision(cs[k])],
                   keys |-> << >>, raised |-> TRUE]
             ELSE LET rest == TagsLoop(Tail(order),
                                       [cs EXCEPT ![k].tags = TagsAfter(cs[k])])
                  IN  [conns |-> rest.conns, keys |-> <<k>> \o rest.keys,
                       raised |-> rest.raised]

\* references to the network's mutable objects, and objects of the extractor's own
Ref(kind, k) == <<"ref", kind, k>>
Val(v) == <<"val", v>>

\* line 185: self.synapse_tags.update({group_key: current_tags}); current_tags
\* is the group's own _tags dict
SynapseTags(keys) == [k \in Range(keys) |-> Ref("tags", k)]

\* extract_neuron_parameters: {group_key: group._init_parameters}
NeuronParameters(ng) == [k \in Range(ng) |-> Ref("gparams", k)]

\* extract_synapse_parameters: {group_key: group._init_parameters}
SynapseParameters(cg) == [k \in Range(cg) |-> Ref("cparams", k)]

\* what a cell holds now
Deref(cell) ==
    IF cell[1] = "val" THEN cell[2]
    ELSE IF cell[2] = "tags" THEN conns[cell[3]].tags
    ELSE IF cell[2] = "cparams" THEN conns[cell[3]].params
    ELSE groups[cell[3]].params

\* the value of self.net_dict as a reader sees it: every cell followed
NetValue(nd) ==
    [k \in DOMAIN nd |->
        IF k \in {"s_tags", "n_params", "s_params"}
        THEN [g \in DOMAIN nd[k] |-> Deref(nd[k][g])]
        ELSE nd[k]]

\* __init__, when no division raises
Construct ==
    /\ pc = "new"
    /\ LET ng == Filter(objects, {o \in Range(objects) : IsNeuronGroup(o)})
           cg == Filter(objects, {o \in Range(objects) : IsConnGroup(o)})
           run == TagsLoop(cg, conns)
       IN  /\ ~run.raised
           /\ neuron_groups' = ng
           /\ conn_groups' = cg
           /\ poisson_groups' = Filter(objects, {o \in Range(objects) : IsPoissonGroup(o)})
           /\ spikegen_groups' = Filter(objects, {o \in Range(objects) : IsSpikegenGroup(o)})
           /\ total_num_neurons' = TotalNeurons(ng)
           /\ total_num_synapses' = TotalSynapses(cg)
           /\ conns' = run.conns
           /\ attrs' = [neuron_populations |-> NeuronPopulations(ng),
                        synapse_populations |-> SynapsePopulations(cg),
                        synapse_tags |-> SynapseTags(run.keys),
                        neuron_params |-> NeuronParameters(ng),
                        synapse_params |-> SynapseParameters(cg)]
           /\ net_dict' = [n_total |-> TotalNeurons(ng),
                           s_total |-> TotalSynapses(cg),
                           n_pop |-> NeuronPopulations(ng),
                           s_pop |-> SynapsePopulations(cg),
                           s_tags |-> SynapseTags(run.keys),
                           n_params |-> NeuronParameters(ng),
                           s_params |-> SynapseParameters(cg)]
    /\ pc' = "ready"
    /\ error' = "none"
    /\ hist' = [op |-> "init", groups |-> groups, conns |-> conns]
    /\ UNCHANGED <<groups, objects, files, dirs, stdout, changes>>
    /\ ghost' = [ghost EXCEPT !.built = NetValue(net_dict)']

\* a bug: a recovery layer that swallows the error and returns a description
\* of the groups handled so far
ConstructSwallowsError ==
    /\ pc = "new"
    /\ LET ng == Filter(objects, {o \in Range(objects) : IsNeuronGroup(o)})
           cg == Filter(objects, {o \in Range(objects) : IsConnGroup(o)})
           run == TagsLoop(cg, conns)
       IN  /\ run.raised
           /\ neuron_groups' = ng
           /\ conn_groups' = cg
           /\ poisson_groups' = Filter(objects, {o \in Range(objects) : IsPoissonGroup(o)})
           /\ spikegen_groups' = Filter(objects, {o \in Range(objects) : IsSpikegenGroup(o)})
           /\ total_num_neurons' = TotalNeurons(ng)
           /\ total_num_synapses' = TotalSynapses(cg)
           /\ conns' = run.conns
           /\ attrs' = [neuron_populations |-> NeuronPopulations(ng),
                        synapse_populations |-> SynapsePopulations(cg),
                        synapse_tags |-> SynapseTags(run.keys)]
           /\ net_dict' = [n_total |-> TotalNeurons(ng),
                           s_total |-> TotalSynapses(cg),
                           n_pop |-> NeuronPopulations(ng),
                           s_pop |-> SynapsePopulations(cg),
                           s_tags |-> SynapseTags(run.keys)]
    /\ pc' = "ready"
    /\ error' = "none"
    /\ hist' = [op |-> "init", groups |-> groups, conns |-> conns]
    /\ UNCHANGED <<groups, objects, files, dirs, stdout, changes>>
    /\ ghost' = [ghost EXCEPT !.built = NetValue(net_dict)']

\* __init__, when the division of line 171 raises: net_dict is still the empty
\* OrderedDict of line 99, and the attributes set so far stay
ConstructRaises ==
    /\ pc = "new"
    /\ LET ng == Filter(objects, {o \in Range(objects) : IsNeuronGroup(o)})
           cg == Filter(objects, {o \in Range(objects) : IsConnGroup(o)})
           run == TagsLoop(cg, conns)
       IN  /\ run.raised
           /\ neuron_groups' = ng
           /\ conn_groups' = cg
           /\ poisson_groups' = Filter(objects, {o \in Range(objects) : IsPoissonGroup(o)})
           /\ spikegen_groups' = Filter(objects, {o \in Range(objects) : IsSpikegenGroup(o)})
           /\ total_num_neurons' = TotalNeurons(ng)
           /\ total_num_synapses' = TotalSynapses(cg)
           /\ conns' = run.conns
           /\ attrs' = [neuron_populations |-> NeuronPopulations(ng),
                        synapse_populations |-> SynapsePopulations(cg),
                        synapse_tags |-> SynapseTags(run.keys)]
           /\ net_dict' = EmptyDict
    /\ pc' = "raised"
    /\ error' = "ZeroDivisionError"
    /\ hist' = [op |-> "init", groups |-> groups, conns |-> conns]
    /\ UNCHANGED <<groups, objects, files, dirs, stdout, changes>>
    /\ ghost' = [ghost EXCEPT !.built = NetValue(net_dict)']


\* a later call of extract_neuron_groups()
ExtractNeuronGroups ==
    /\ pc = "ready"
    /\ attrs' = [attrs EXCEPT !.neuron_populations = NeuronPopulations(neuron_groups)]
    /\ error' = "none"
    /\ hist' = [op |-> "extract_neuron_groups", groups |-> groups, conns |-> conns]
    /\ UNCHANGED <<netVars, pc, neuron_groups, conn_groups, poisson_groups,
                   spikegen_groups, total_num_neurons, total_num_synapses,
                   net_dict, fsVars, stdout, changes, ghost>>

\* a later call of extract_synapse_groups()
ExtractSynapseGroups ==
    /\ pc = "ready"
    /\ attrs' = [attrs EXCEPT !.synapse_populations = SynapsePopulations(conn_groups)]
    /\ error' = "none"
    /\ hist' = [op |-> "extract_synapse_groups", groups |-> groups, conns |-> conns]
    /\ UNCHANGED <<netVars, pc, neuron_groups, conn_groups, poisson_groups,
                   spikegen_groups, total_num_neurons, total_num_synapses,
                   net_dict, fsVars, stdout, changes, ghost>>

\* a later call of extract_synapse_tags(): it works on the groups' own _tags
\* again. No population changes its size after construction, so the division
\* that did not raise in __init__ does not raise here.
ExtractSynapseTags ==
    /\ pc = "ready"
    /\ LET run == TagsLoop(conn_groups, conns)
       IN  /\ ~run.raised
           /\ conns' = run.conns
           /\ attrs' = [attrs EXCEPT !.synapse_tags = SynapseTags(run.keys)]
    /\ error' = "none"
    /\ hist' = [op |-> "extract_synapse_tags", groups |-> groups, conns |-> conns]
    /\ UNCHANGED <<groups, objects, pc, neuron_groups, conn_groups, poisson_groups,
                   spikegen_groups, total_num_neurons, total_num_synapses,
                   net_dict, fsVars, stdout, changes, ghost>>

\* a later call of extract_neuron_parameters()
ExtractNeuronParameters ==
    /\ pc = "ready"
    /\ attrs' = [attrs EXCEPT !.neuron_params = NeuronParameters(neuron_groups)]
    /\ error' = "none"
    /\ hist' = [op |-> "extract_neuron_parameters", groups |-> groups, conns |-> conns]
    /\ UNCHANGED <<netVars, pc, neuron_groups, conn_groups, poisson_groups,
                   spikegen_groups, total_num_neurons, total_num_synapses,
                   net_dict, fsVars, stdout, changes, ghost>>

\* a later call of extract_synapse_parameters()
ExtractSynapseParameters ==
    /\ pc = "ready"
    /\ attrs' = [attrs EXCEPT !.synapse_params = SynapseParameters(conn_groups)]
    /\ error' = "none"
    /\ hist' = [op |-> "extract_synapse_parameters", groups |-> groups, conns |-> conns]
    /\ UNCHANGED <<netVars, pc, neuron_groups, conn_groups, poisson_groups,
                   spikegen_groups, total_num_neurons, total_num_synapses,
                   net_dict, fsVars, stdout, changes, ghost>>

(***************************************************************************)
(* The network's owner, who still holds the groups after construction       *)
(***************************************************************************)
\* group._tags[key] = value
SetTag ==
    /\ pc = "ready"
    /\ changes < MaxMut
    /\ \E k \in DOMAIN conns :
       \E kv \in {<<"sign", "inh">>, <<"mismatch", 1>>, <<"plastic", TRUE>>} :
          conns' = [conns EXCEPT ![k].tags = Update(@, kv[1], kv[2])]
    /\ changes' = changes + 1
    /\ hist' = [op |-> "set_tag", value |-> NetValue(net_dict)]
    /\ UNCHANGED <<groups, objects, pc, error, selfVars, fsVars, stdout, ghost>>

\* group._init_parameters[key] = value, for a neuron group or a synapse group
SetInitParameter ==
    /\ pc = "ready"
    /\ changes < MaxMut
    /\ \/ /\ \E g \in DOMAIN groups :
                groups' = [groups EXCEPT ![g].params = Update(@, "refP", 2)]
          /\ UNCHANGED conns
       \/ /\ \E k \in DOMAIN conns :
                conns' = [conns EXCEPT ![k].params = Update(@, "taupre", 10)]
          /\ UNCHANGED groups
    /\ changes' = changes + 1
    /\ hist' = [op |-> "set_init_parameter", value |-> NetValue(net_dict)]
    /\ UNCHANGED <<objects, pc, error, selfVars, fsVars, stdout, ghost>>

(***************************************************************************)
(* str and os.path                                                         *)
(***************************************************************************)
\* s[-n:]
LastChars(s, n) == IF Len(s) <= n THEN s ELSE SubSeq(s, Len(s) - n + 1, Len(s))

\* posixpath.join(a, b)
OsPathJoin(a, b) ==
    IF b # << >> /\ Head(b) = "/" THEN b
    ELSE IF a = << >> \/ a[Len(a)] = "/" THEN a \o b
    ELSE a \o <<"/">> \o b

\* os.path.expanduser('~')
Home == <<"/", "h">>

\* directory=None
None == <<"None">>

\* lines 230-232
DefaultDirectory ==
    OsPathJoin(OsPathJoin(Home, <<"t", "e", "i", "l", "i", "A", "p", "p", "s">>),
               <<"o", "u", "t", "p", "u", "t">>)

\* os.makedirs(d): d and the missing directories above it
MakeDirs(ds, d) ==
    ds \cup {d} \cup {SubSeq(d, 1, i - 1) : i \in {j \in 2..Len(d) : d[j] = "/"}}

\* os.path.dirname(p)
Dirname(path) ==
    LET slashes == {i \in DOMAIN path : path[i] = "/"}
    IN  IF slashes = {} THEN << >>
        ELSE LET last == CHOOSE i \in slashes : \A j \in slashes : j <= i
             IN  IF last = 1 THEN <<"/">> ELSE SubSeq(path, 1, last - 1)

\* open(path, 'wb') succeeds: the directory exists and the path is no directory
CanOpenForWriting(ds, path) ==
    /\ path # << >>
    /\ path[Len(path)] # "/"
    /\ path \notin ds
    /\ Dirname(path) \in ds

\* a bug: '.pickle' is not recognised as an extension
HasExtensionDotPOnly(filename) == LastChars(filename, 2) = <<".", "p">>

\* line 236
HasExtension(filename) ==
    \/ LastChars(filename, 2) = <<".", "p">>
    \/ LastChars(filename, 7) = <<".", "p", "i", "c", "k", "l", "e">>

\* lines 229-232: the directory save_to_file writes to
TargetDirectory(directory) == IF directory = None THEN DefaultDirectory ELSE directory

\* lines 236-242: the path save_to_file opens
TargetPath(filename, directory) ==
    IF HasExtension(filename)
    THEN OsPathJoin(TargetDirectory(directory), filename)
    ELSE OsPathJoin(TargetDirectory(directory), filename \o <<".", "p">>)

(***************************************************************************)
(* pickle: a dict is written as the list of its items, dicts inside it      *)
(* likewise; what is read back are new objects                             *)
(***************************************************************************)
Items(d) == LET keys == KeysOf(DOMAIN d) IN [i \in DOMAIN keys |-> <<keys[i], d[keys[i]]>>]

\* the dict a list of items builds: a later item replaces an earlier one
FromItems(items) ==
    [k \in {items[i][1] : i \in DOMAIN items} |->
        items[CHOOSE i \in DOMAIN items :
                 items[i][1] = k /\ \A j \in DOMAIN items : items[j][1] = k => j <= i][2]]

\* the keys of net_dict whose values are dicts of dicts
NestedKeys == {"s_tags", "n_params", "s_params"}
\* the keys of net_dict whose values are dicts of ints or lists
FlatKeys == {"n_pop", "s_pop"}

\* pickle.dump of one value of net_dict
PickleValue(key, v) ==
    IF key \in NestedKeys
    THEN <<"dict", Items([g \in DOMAIN v |-> <<"dict", Items(Deref(v[g]))>>])>>
    ELSE IF key \in FlatKeys THEN <<"dict", Items(v)>>
    ELSE <<"int", v>>

\* a bug: the dump leaves out the last item of every tags and parameter dict
PickleDumpLossy(nd) ==
    [kind |-> "pickle",
     items |-> Items([k \in DOMAIN nd |->
                  IF k \in NestedKeys
                  THEN <<"dict", Items([g \in DOMAIN nd[k] |->
                            <<"dict", LET it == Items(Deref(nd[k][g]))
                                      IN  SubSeq(it, 1, Len(it) - 1)>>])>>
                  ELSE PickleValue(k, nd[k])])]

\* pickle.dump(self.net_dict, handle)
PickleDump(nd) ==
    [kind |-> "pickle", items |-> Items([k \in DOMAIN nd |-> PickleValue(k, nd[k])])]

\* pickle.load of one value
UnpickleValue(key, e) ==
    IF key \in NestedKeys
    THEN LET outer == FromItems(e[2])
         IN  [g \in DOMAIN outer |-> Val(FromItems(outer[g][2]))]
    ELSE IF key \in FlatKeys THEN FromItems(e[2])
    ELSE e[2]

\* pickle.load(handle)
PickleLoad(content) ==
    LET top == FromItems(content.items)
    IN  [k \in DOMAIN top |-> UnpickleValue(k, top[k])]

(***************************************************************************)
(* save_to_file, load_from_file, print_network                             *)
(***************************************************************************)
FileNames ==
    {<<"n">>, <<"n", ".", "p">>, <<"n", ".", "p", "i", "c", "k", "l", "e">>,
     <<".", "p">>, <<"/", "a">>, <<"d", "/", "n">>}

\* no directory, a directory that exists (written with its final slash) and
\* one that does not
Directories == {None, Home \o <<"/">>, <<"/", "x">>}

\* save_to_file(filename, directory), when open() succeeds
SaveToFile ==
    /\ pc = "ready"
    /\ \E filename \in FileNames, directory \in Directories :
          LET ds == IF directory = None /\ DefaultDirectory \notin dirs
                    THEN MakeDirs(dirs, DefaultDirectory) ELSE dirs
              path == TargetPath(filename, directory)
          IN  /\ CanOpenForWriting(ds, path)
              /\ IF path \in DOMAIN files THEN TRUE
                 ELSE Cardinality(DOMAIN files) < MaxFiles
              /\ dirs' = ds
              /\ files' = Update(files, path, PickleDump(net_dict))
              /\ stdout' = <<<<"Network description saved to: \n {}", path>>>>
              /\ hist' = [op |-> "save", ok |-> TRUE, filename |-> filename,
                          directory |-> directory, path |-> path,
                          files |-> files, dirs |-> dirs,
                          value |-> NetValue(net_dict)]
    /\ error' = "none"
    /\ UNCHANGED <<netVars, pc, selfVars, changes, ghost>>

\* save_to_file(filename, directory), when open() raises: nothing is written
SaveToFileRaises ==
    /\ pc = "ready"
    /\ \E filename \in FileNames, directory \in Directories :
          LET ds == IF directory = None /\ DefaultDirectory \notin dirs
                    THEN MakeDirs(dirs, DefaultDirectory) ELSE dirs
              path == TargetPath(filename, directory)
          IN  /\ ~CanOpenForWriting(ds, path)
              /\ dirs' = ds
              /\ hist' = [op |-> "save", ok |-> FALSE, filename |-> filename,
                          directory |-> directory, path |-> path,
                          files |-> files, dirs |-> dirs,
                          value |-> NetValue(net_dict)]
    /\ error' = "OSError"
    /\ UNCHANGED <<netVars, pc, selfVars, files, stdout, changes, ghost>>

\* the paths load_from_file is tried on
LoadPaths == (DOMAIN files) \cup {<<"/", "h", "/", "m">>}

\* what the history keeps of the call before a load
Before ==
    IF hist.op = "save" THEN [op |-> "save", ok |-> hist.ok, path |-> hist.path,
                              value |-> hist.value]
    ELSE [op |-> hist.op]

\* a bug: the loaded mapping is merged into the old one
LoadFromFileMerges ==
    /\ pc = "ready"
    /\ \E path \in DOMAIN files :
          /\ files[path].kind = "pickle"
          /\ net_dict' = [k \in (DOMAIN net_dict) \cup DOMAIN PickleLoad(files[path]) |->
                             IF k \in DOMAIN PickleLoad(files[path])
                             THEN PickleLoad(files[path])[k] ELSE net_dict[k]]
          /\ hist' = [op |-> "load", ok |-> TRUE, path |-> path, before |-> Before]
          /\ ghost' = [ghost EXCEPT !.loaded = [some |-> TRUE, content |-> files[path]]]
    /\ error' = "none"
    /\ UNCHANGED <<netVars, pc, neuron_groups, conn_groups, poisson_groups,
                   spikegen_groups, total_num_neurons, total_num_synapses, attrs,
                   fsVars, stdout, changes>>

\* load_from_file(filename), when the file is there and holds a pickle
LoadFromFile ==
    /\ pc = "ready"
    /\ \E path \in DOMAIN files :
          /\ files[path].kind = "pickle"
          /\ net_dict' = PickleLoad(files[path])
          /\ hist' = [op |-> "load", ok |-> TRUE, path |-> path, before |-> Before]
          /\ ghost' = [ghost EXCEPT !.loaded = [some |-> TRUE, content |-> files[path]]]
    /\ error' = "none"
    /\ UNCHANGED <<netVars, pc, neuron_groups, conn_groups, poisson_groups,
                   spikegen_groups, total_num_neurons, total_num_synapses, attrs,
                   fsVars, stdout, changes>>

\* load_from_file(filename), when open() or pickle.load() raises: the
\* assignment of line 258 does not happen
LoadFromFileRaises ==
    /\ pc = "ready"
    /\ \E path \in LoadPaths :
          /\ IF path \in DOMAIN files THEN files[path].kind # "pickle" ELSE TRUE
          /\ error' = IF path \in DOMAIN files THEN "UnpicklingError"
                      ELSE "FileNotFoundError"
          /\ hist' = [op |-> "load", ok |-> FALSE, path |-> path, before |-> Before]
    /\ UNCHANGED <<netVars, pc, selfVars, fsVars, stdout, changes, ghost>>

\* the lines print_network prints for one value of net_dict
PrintedLines(k, v) ==
    IF k \in NestedKeys \cup FlatKeys
    THEN <<<<k>>>> \o
         LET inner == Items(v)
             Block(i) ==
                 IF k \in NestedKeys
                 THEN <<<<"  ", inner[i][1]>>>> \o
                      LET leaf == Items(Deref(inner[i][2]))
                      IN  [j \in DOMAIN leaf |-> <<"    ", leaf[j][1], ": ", leaf[j][2]>>]
                 ELSE <<<<"  ", inner[i][1], ": ", inner[i][2]>>>>
             Blocks[i \in 0..Len(inner)] ==
                 IF i = 0 THEN << >> ELSE Blocks[i - 1] \o Block(i)
         IN  Blocks[Len(inner)]
    ELSE <<<<k, v>>>>

NetDictKeyOrder ==
    <<"n_total", "s_total", "n_pop", "s_pop", "s_tags", "n_params", "s_params">>

\* print_network()
PrintNetwork ==
    /\ pc = "ready"
    /\ LET keys == Filter(NetDictKeyOrder, DOMAIN net_dict)
           Lines[i \in 0..Len(keys)] ==
               IF i = 0 THEN << >>
               ELSE Lines[i - 1] \o PrintedLines(keys[i], net_dict[keys[i]])
       IN  stdout' = Lines[Len(keys)]
    /\ error' = "none"
    /\ hist' = [op |-> "print", before |-> Before]
    /\ UNCHANGED <<netVars, pc, selfVars, fsVars, changes, ghost>>

(***************************************************************************)
(* Initial states                                                          *)
(***************************************************************************)
\* the directories that exist at the start: the working directory, / and ~
HomeDirs == {<< >>, <<"/">>, Home}

InitSelf ==
    /\ pc = "new"
    /\ error = "none"
    /\ neuron_groups = << >>
    /\ conn_groups = << >>
    /\ poisson_groups = << >>
    /\ spikegen_groups = << >>
    /\ total_num_neurons = 0
    /\ total_num_synapses = 0
    /\ attrs = EmptyDict
    /\ net_dict = EmptyDict
    /\ stdout = << >>
    /\ changes = 0
    /\ hist = [op |-> "none"]
    /\ ghost = [built |-> EmptyDict, loaded |-> [some |-> FALSE]]

\* networks of two populations of any size and one or two synapse groups of
\* any size between them, with teili's tags
InitSizes ==
    \E t1 \in {"Neurons", "NeuronGroup", "PoissonGroup"},
       n1 \in 0..MaxN, n2 \in 0..MaxN, s \in GroupNames, d \in GroupNames,
       w \in SeqsUpTo(Weights, MaxConn) :
       /\ groups = [g \in GroupNames |->
                       IF g = "g1" THEN Group(t1, n1, NeuronParams)
                       ELSE Group("Neurons", n2, NeuronParams)]
       /\ \/ /\ conns = [k \in {"s1"} |->
                            Conn("Connections", s, d, w, TeiliTags, EmptyDict)]
             /\ objects = <<"g1", "g2", "s1">>
          \/ \E w2 \in SeqsUpTo({20}, 1) :
             /\ conns = [k \in ConnNames |->
                            IF k = "s1"
                            THEN Conn("Connections", s, d, w, TeiliTags, EmptyDict)
                            ELSE Conn("Synapses", "g2", "g1", w2, TeiliTags,
                                      [taupre |-> 20])]
             /\ objects \in {<<"g1", "g2", "s1", "s2">>, <<"s2", "g2", "s1", "g1">>}

\* networks of two populations and two synapse groups of any type
InitTypes ==
    \E t1 \in GroupTypes, t2 \in GroupTypes, ct1 \in SynapseTypes,
       ct2 \in SynapseTypes, n1 \in 1..MaxN :
       /\ groups = [g \in GroupNames |->
                       IF g = "g1" THEN Group(t1, n1, NeuronParams)
                       ELSE Group(t2, 1, NeuronParams)]
       /\ conns = [k \in ConnNames |->
                      IF k = "s1"
                      THEN Conn(ct1, "g1", "g2", <<5>>, TeiliTags, EmptyDict)
                      ELSE Conn(ct2, "g2", "g2", <<5, 20>>, TeiliTags,
                                [taupre |-> 20])]
       /\ objects = <<"g1", "s1", "g2", "s2">>

\* networks of one synapse group whose tags and parameters are drawn from
\* the given sets
InitTagsFrom(tagSet, paramSet, weightSet, neuronParamSet) ==
    \E n2 \in 0..1, w \in weightSet,
       tg \in tagSet, p \in paramSet, np \in neuronParamSet :
       /\ groups = [g \in GroupNames |->
                       IF g = "g1" THEN Group("Neurons", 1, np)
                       ELSE Group("NeuronGroup", n2, NeuronParams)]
       /\ conns = [k \in {"s1"} |-> Conn("Connections", "g1", "g2", w, tg, p)]
       /\ objects = <<"g1", "g2", "s1">>

InitNoFiles ==
    /\ files = EmptyDict
    /\ dirs = HomeDirs

Init ==
    /\ InitSelf
    /\ InitNoFiles
    /\ \/ InitSizes
       \/ InitTypes
       \/ InitTagsFrom(TagChoices, SynapseParamChoices, {<< >>, <<5>>, <<5, 20>>},
                       {EmptyDict, NeuronParams})

\* a mapping saved earlier, by an older version: it has two keys only
OldDescription == [n_total |-> 4, n_pop |-> [old |-> 4]]

\* the file system may hold an earlier pickle and a file that is no pickle,
\* and the default directory may exist already
InitFiles ==
    \/ /\ files = EmptyDict
       /\ dirs \in {HomeDirs, MakeDirs(HomeDirs, DefaultDirectory)}
    \/ /\ files \in {[f \in {<<"/", "h", "/", "o", ".", "p">>} |->
                         PickleDump(OldDescription)],
                     [f \in {<<"/", "h", "/", "t">>} |-> [kind |-> "text"]]}
       /\ dirs = HomeDirs

InitFile ==
    /\ InitSelf
    /\ InitFiles
    /\ InitTagsFrom({TeiliTags}, {[taupre |-> 20]}, {<< >>, <<5, 20>>}, {NeuronParams})

InitEnv ==
    /\ InitSelf
    /\ InitNoFiles
    /\ InitTagsFrom({TeiliTags, Update(TeiliTags, "foo", 7)}, SynapseParamChoices,
                    {<< >>, <<5>>, <<5, 20>>}, {EmptyDict, NeuronParams})

(***************************************************************************)
(* Specifications                                                          *)
(***************************************************************************)
\* construction and the extract_* methods, over a wide range of networks
Next ==
    \/ Construct
    \/ ConstructRaises
    \/ ExtractNeuronGroups
    \/ ExtractSynapseGroups
    \/ ExtractSynapseTags
    \/ ExtractNeuronParameters
    \/ ExtractSynapseParameters

Spec == Init /\ [][Next]_vars

\* the same, while the network's owner goes on changing the groups
NextEnv ==
    \/ Next
    \/ SetTag
    \/ SetInitParameter

SpecEnv == InitEnv /\ [][NextEnv]_vars

\* construction, then any sequence of save_to_file, load_from_file and
\* print_network calls
NextFile ==
    \/ Construct
    \/ ConstructRaises
    \/ SaveToFile
    \/ SaveToFileRaises
    \/ LoadFromFile
    \/ LoadFromFileRaises
    \/ PrintNetwork

SpecFile == InitFile /\ [][NextFile]_vars

(***************************************************************************)
(* Properties                                                              *)
(***************************************************************************)
RECURSIVE SumValues(_)
SumValues(f) ==
    IF DOMAIN f = {} THEN 0
    ELSE LET k == CHOOSE x \in DOMAIN f : TRUE
         IN  f[k] + SumValues([x \in (DOMAIN f) \ {k} |-> f[x]])

NamesOfType(types) == {o \in Range(objects) : TypeOf(o) \in types}

\* C2: in the mapping the constructor builds, n_total is the sum of the
\* values of n_pop, and s_total is the sum of the numbers of connections of
\* the synapse groups that are the keys of s_pop.
C2_SumInvariant ==
    pc = "ready" =>
        /\ net_dict.n_total = SumValues(net_dict.n_pop)
        /\ net_dict.s_total =
              SumValues([k \in DOMAIN net_dict.s_pop |-> Len(conns[k].w_plast)])

C2_Witness ==
    /\ pc = "ready"
    /\ Cardinality(DOMAIN net_dict.n_pop) = 2
    /\ Cardinality(DOMAIN net_dict.s_pop) = 2
    /\ net_dict.n_total = 3
    /\ net_dict.s_total = 3

\* C3: for every synapse group whose source and target populations are both
\* non-empty, the p_connection tag is a value in [0, 1].
C3_PConnectionInUnitInterval ==
    pc = "ready" =>
        \A k \in DOMAIN net_dict.s_tags :
            (groups[conns[k].source].N > 0 /\ groups[conns[k].target].N > 0) =>
                LET p == Deref(net_dict.s_tags[k])["p_connection"]
                IN  0 <= p[1] /\ p[1] <= p[2]

\* C5: no mutable object reachable from net_dict is an object of the input
\* network: when the owner changes a group's tags or initial parameters
\* after construction, what net_dict holds does not change.
C5_NoSharedState ==
    hist.op \in {"set_tag", "set_init_parameter"} =>
        NetValue(net_dict) = hist.value

\* C7: constructing an extractor from a network that contains a synapse
\* group whose source or target population is empty ends in a
\* division-by-zero error raised out of the constructor, and no network
\* description is produced.
C7_EmptyPopulationRaises ==
    (pc # "new" /\ \E k \in NamesOfType(SynapseTypes) :
                        groups[conns[k].source].N = 0 \/ groups[conns[k].target].N = 0)
        => /\ pc = "raised"
           /\ error = "ZeroDivisionError"
           /\ DOMAIN net_dict = {}

C7_Witness ==
    /\ pc = "raised"
    /\ hist.op = "init"
    /\ Cardinality(DOMAIN conns) = 2
    /\ \E k \in DOMAIN conns : groups[conns[k].source].N > 0 /\ groups[conns[k].target].N > 0
    /\ \E k \in DOMAIN conns : groups[conns[k].source].N > 0 /\ groups[conns[k].target].N = 0

SixTagKeys == {"sign", "target_sign", "p_connection", "plastic", "mean", "std"}

SevenRemovedKeys ==
    {"mismatch", "noise", "level", "num_inputs", "bb_type", "group_type",
     "connection_type"}

C9_ClassificationPartition ==
    /\ pc # "new" =>
        /\ Range(neuron_groups) = NamesOfType({"Neurons", "NeuronGroup"})
        /\ Range(conn_groups) = NamesOfType({"Connections", "Synapses"})
        /\ Range(poisson_groups) = NamesOfType({"PoissonGroup"})
        /\ Range(spikegen_groups) = NamesOfType({"SpikeGeneratorGroup"})
        /\ \A o \in Range(objects) :
              Cardinality({c \in 1..4 :
                  o \in Range(<<neuron_groups, conn_groups, poisson_groups,
                                spikegen_groups>>[c])}) <= 1
    /\ pc = "ready" =>
        /\ DOMAIN net_dict.n_pop = NamesOfType({"Neurons", "NeuronGroup"})
        /\ DOMAIN net_dict.n_params = NamesOfType({"Neurons", "NeuronGroup"})
        /\ DOMAIN net_dict.s_pop = NamesOfType({"Connections", "Synapses"})
        /\ DOMAIN net_dict.s_tags = NamesOfType({"Connections", "Synapses"})
        /\ DOMAIN net_dict.s_params = NamesOfType({"Connections", "Synapses"})

C9_Witness ==
    /\ pc = "ready"
    /\ groups["g1"].type = "NeuronGroup"
    /\ groups["g2"].type = "Subgroup"
    /\ conns["s1"].type = "Synapses"
    /\ DOMAIN net_dict.n_pop = {"g1"}
    /\ DOMAIN net_dict.s_tags = {"s1", "s2"}

\* C10: after the constructor, and after any later call of an extract_*
\* method, every group of the input network has the tags, initial
\* parameters, size and connections it had before the call.
C10_NetworkUnchanged ==
    pc = "ready" /\ hist.op \in {"init", "extract_neuron_groups", "extract_synapse_groups",
                 "extract_synapse_tags", "extract_neuron_parameters",
                 "extract_synapse_parameters"} =>
        /\ groups = hist.groups
        /\ conns = hist.conns

\* C1: after save_to_file(filename, directory) and then load_from_file on
\* the path save_to_file wrote, net_dict equals the mapping it held before
\* the save: same keys, same values.
C1_RoundTrip ==
    (/\ hist.op = "load" /\ hist.ok
     /\ hist.before.op = "save" /\ hist.before.ok
     /\ hist.path = hist.before.path)
        => NetValue(net_dict) = hist.before.value

C1_Witness ==
    /\ hist.op = "load" /\ hist.ok
    /\ hist.before.op = "save" /\ hist.before.ok
    /\ hist.path = hist.before.path
    /\ ~ghost.loaded.some \/ ghost.loaded.content # PickleDump(OldDescription)
    /\ DOMAIN net_dict.s_tags = {"s1"}
    /\ net_dict.s_tags["s1"][1] = "val"
    /\ Deref(net_dict.s_tags["s1"])["mean"] = Float(1)
    /\ DOMAIN Deref(net_dict.s_params["s1"]) = {"taupre"}

\* C4: after any sequence of save_to_file, print_network and load_from_file
\* calls, net_dict equals the mapping the constructor built if no
\* load_from_file has succeeded, and otherwise it is exactly the content of
\* the file loaded last: no key of the previous mapping survives.
C4_ImmutableExceptReload ==
    pc = "ready" =>
        IF ghost.loaded.some
        THEN /\ PickleDump(net_dict) = ghost.loaded.content
             /\ DOMAIN net_dict =
                   {ghost.loaded.content.items[i][1] :
                        i \in DOMAIN ghost.loaded.content.items}
        ELSE NetValue(net_dict) = ghost.built

C4_Witness ==
    /\ pc = "ready"
    /\ ghost.loaded.some
    /\ ghost.loaded.content = PickleDump(OldDescription)
    /\ DOMAIN ghost.built = Range(NetDictKeyOrder)
    /\ DOMAIN net_dict = {"n_total", "n_pop"}
    /\ hist.op = "print"
    /\ hist.before.op = "save"

\* s ends with suffix
EndsWith(s, suffix) == \E i \in 0..Len(s) : s = SubSeq(s, 1, i) \o suffix

\* ~/teiliApps/output
TeiliAppsOutput ==
    <<"/", "h", "/", "t", "e", "i", "l", "i", "A", "p", "p", "s",
      "/", "o", "u", "t", "p", "u", "t">>

\* C6: save_to_file(filename, directory) writes the mapping to exactly one
\* path, join(D, F): D is the given directory or, when directory is None,
\* ~/teiliApps/output (created first if it does not exist); F is filename
\* when it ends with '.p' or '.pickle' and filename + '.p' otherwise. A call
\* whose open() raises writes nothing.
C6_SaveWritesOnePath ==
    hist.op = "save" =>
        LET D == IF hist.directory = None THEN TeiliAppsOutput ELSE hist.directory
            F == IF \/ EndsWith(hist.filename, <<".", "p">>)
                    \/ EndsWith(hist.filename, <<".", "p", "i", "c", "k", "l", "e">>)
                 THEN hist.filename
                 ELSE hist.filename \o <<".", "p">>
            P == OsPathJoin(D, F)
        IN  /\ hist.path = P
            /\ hist.directory = None => TeiliAppsOutput \in dirs
            /\ hist.ok =>
                  /\ DOMAIN files = (DOMAIN hist.files) \cup {P}
                  /\ files[P] = PickleDump(net_dict)
                  /\ \A q \in DOMAIN hist.files : q # P => files[q] = hist.files[q]
            /\ ~hist.ok => files = hist.files

C6_Witness ==
    /\ hist.op = "save" /\ hist.ok
    /\ hist.directory = None
    /\ hist.filename = <<"n", ".", "p", "i", "c", "k", "l", "e">>
    /\ TeiliAppsOutput \notin hist.dirs
    /\ hist.files # EmptyDict
    /\ hist.path \notin DOMAIN hist.files

\* C11: for every synapse group in s_pop, both the source (pre) and the
\* target (post) population identifier stored for it are keys of n_pop.
C11_ReferentialIntegrity ==
    pc = "ready" =>
        \A k \in DOMAIN net_dict.s_pop :
            /\ net_dict.s_pop[k][1] \in DOMAIN net_dict.n_pop
            /\ net_dict.s_pop[k][2] \in DOMAIN net_dict.n_pop

====
